---- MODULE Spec2Model ----
(***************************************************************************)
(* The streaming inference pipeline of streaming.py: StreamInfer's three   *)
(* queues and prediction list, the capture thread (mic_record), the        *)
(* aggregation thread (audio_collection), and the main thread, which runs  *)
(* main(): it starts the two threads, then calls preprocess() and infer()  *)
(* itself and finally polls check_queue_size().                            *)
(*                                                                         *)
(* A RawChunk is [id, len]: id is the ordinal of the read() that produced  *)
(* it, len its byte length.  np.frombuffer turns it into a run of int16    *)
(* samples [id, n]; an AudioFrame is the sequence of the runs np.append    *)
(* concatenated, so its sample count is the sum of the n.                  *)
(***************************************************************************)
EXTENDS Integers, Sequences, FiniteSets, TLC

VARIABLES
    audio_q,            \* StreamInfer.audio_q
    preprocess_q,       \* StreamInfer.preprocess_q
    model_q,            \* StreamInfer.model_q
    predictions,        \* StreamInfer.predictions
    audio_buffer_size,  \* argument of start_collection / audio_collection
    main_pc,            \* position of the main thread in main()
    np_array,           \* preprocess(): the frame it dequeued
    norm_log_spec,      \* infer(): the feature frame it dequeued
    mon_i,              \* main(): iterations of the monitoring loop done
    mon_line,           \* check_queue_size(): next print statement (1..4)
    report,             \* what check_queue_size() printed last, per label
    mic_pc,             \* position of the mic_record thread
    mic_buffer,         \* mic_record(): the chunk read and not yet put
    subproc,            \* state of the rec subprocess
    nreads,             \* read() calls made so far
    agg_pc,             \* position of the audio_collection thread
    audio_buffer,       \* audio_collection(): the runs appended so far
    put_log,            \* history: every chunk put on audio_q, in order
    frames_log,         \* history: every frame put on preprocess_q, in order
    feat_log,           \* history: every feature frame put on model_q
    infer_log,          \* history: every feature frame model.infer was called on
    cancelled           \* history: a SIGINT has been raised

vars == <<audio_q, preprocess_q, model_q, predictions, audio_buffer_size,
          main_pc, np_array, norm_log_spec, mon_i, mon_line, report,
          mic_pc, mic_buffer, subproc, nreads, agg_pc, audio_buffer,
          put_log, frames_log, feat_log, infer_log, cancelled>>

(***************************************************************************)
(* Bounds of the model and constants of the program.                       *)
(***************************************************************************)
MaxChunks == 5
MaxBufferSize == 2
MaxRounds == 1

ChunkBytes == 512
SampleBytes == 2
MonitorRounds == 20
window_size == 20
step_size == 10
sample_rate == 16000

\* Byte counts a short read of the pipe is represented by: one that holds
\* whole samples and one that splits a sample.
ShortReads == {ChunkBytes \div 2, ChunkBytes - 1}

None == [id |-> 0]

(***************************************************************************)
(* Pure helpers.                                                           *)
(***************************************************************************)
RECURSIVE SumN(_)
SumN(s) == IF s = <<>> THEN 0 ELSE Head(s).n + SumN(Tail(s))

RECURSIVE Flatten(_)
Flatten(ss) == IF ss = <<>> THEN <<>> ELSE Head(ss) \o Flatten(Tail(ss))

\* np.frombuffer(mic_buffer, dtype=np.int16): defined when the byte count
\* is a multiple of the item size, else ValueError.
frombuffer_ok(chunk) == chunk.len % SampleBytes = 0
frombuffer(chunk) == [id |-> chunk.id, n |-> chunk.len \div SampleBytes]

\* np.append with its arguments swapped.
np_append_front(buf, run) == <<run>> \o buf

\* np.append(audio_buffer, np_mic_buffer)
np_append(buf, run) == Append(buf, run)

\* The loop leaving one iteration early.
collected_early(buf) == Len(buf) >= audio_buffer_size - 1

\* for _ in range(audio_buffer_size): one run is appended per iteration, so
\* the loop has ended when the buffer holds audio_buffer_size runs.
collected(buf) == Len(buf) = audio_buffer_size

nperseg == (window_size * sample_rate) \div 1000
noverlap == (step_size * sample_rate) \div 1000

\* scipy.signal.spectrogram shortens the window to the input when the
\* input is shorter than nperseg; the bin count is window/2 + 1.
freq_bins(n) == (IF n < nperseg THEN n ELSE nperseg) \div 2 + 1
time_steps(n) == IF n < nperseg THEN 1 ELSE (n - noverlap) \div (nperseg - noverlap)

\* preproc.mean / preproc.std hold one value per bin of a full window.
stat_bins == nperseg \div 2 + 1

\* A normalisation that accepts a spectrogram of any number of bins.
preprocess_ok_anybins(frame) == SumN(frame) > noverlap

\* log_specgram(np_array) followed by (log_spec - mean) / std succeeds when
\* the spectrogram can be taken and its bins match the statistics.
preprocess_ok(frame) ==
    /\ SumN(frame) > noverlap
    /\ freq_bins(SumN(frame)) = stat_bins

log_specgram(frame) ==
    [src |-> frame, steps |-> time_steps(SumN(frame)), bins |-> freq_bins(SumN(frame))]

\* A batch that holds the feature frame twice.
infer_preds_twice(feat) == << [of |-> feat.src], [of |-> feat.src] >>

\* fake_label = [27]
fake_label == <<27>>

\* A batch that pairs the feature frame with itself.
dummy_batch_pair(feat) == << <<feat, feat>>, <<fake_label, fake_label>> >>

\* dummy_batch = ((norm_log_spec,), (fake_label,))
dummy_batch(feat) == << <<feat>>, <<fake_label>> >>

\* model.infer(batch) returns one sequence per example of the batch, and
\* [preproc.decode(pred) for pred in preds] one prediction per sequence.
model_infer(batch) == [i \in 1..Len(batch[1]) |-> [of |-> batch[1][i].src]]

\* model.infer(dummy_batch) on a batch of one example, each raw sequence
\* decoded: one prediction, derived from the feature frame.
infer_preds(feat) == model_infer(dummy_batch(feat))

\* The list assigned instead of extended.
extend_assign(list, preds) == preds

\* The new predictions inserted at the front of the list.
extend_front(list, preds) == preds \o list

\* self.predictions.extend(preds)
extend(list, preds) == list \o preds

\* A queue that holds one item at most.
can_put_one(q) == Len(q) < 1

\* Queue() is built without maxsize: put() finds room whatever the depth.
can_put(q) == TRUE

\* Dequeue position of Queue.get(): the oldest item.
q_get(q) == Head(q)
q_rest(q) == Tail(q)
q_put(q, x) == Append(q, x)

(***************************************************************************)
(* Initial state: StreamInfer() constructed, main() about to start.        *)
(***************************************************************************)
Init ==
    /\ audio_q = <<>>
    /\ preprocess_q = <<>>
    /\ model_q = <<>>
    /\ predictions = <<>>
    /\ audio_buffer_size \in 1..MaxBufferSize
    /\ main_pc = "start_stream"
    /\ np_array = <<>>
    /\ norm_log_spec = None
    /\ mon_i = 0
    /\ mon_line = 1
    /\ report = [audio_q |-> -1, preprocess_q |-> -1, model_q |-> -1, predictions |-> -1]
    /\ mic_pc = "idle"
    /\ mic_buffer = None
    /\ subproc = "none"
    /\ nreads = 0
    /\ agg_pc = "idle"
    /\ audio_buffer = <<>>
    /\ put_log = <<>>
    /\ frames_log = <<>>
    /\ feat_log = <<>>
    /\ infer_log = <<>>
    /\ cancelled = FALSE

queues == <<audio_q, preprocess_q, model_q, predictions>>
main_vars == <<main_pc, np_array, norm_log_spec, mon_i, mon_line, report>>
mic_vars == <<mic_pc, mic_buffer, subproc, nreads>>
agg_vars == <<agg_pc, audio_buffer>>
logs == <<put_log, frames_log, feat_log, infer_log>>

(***************************************************************************)
(* The capture thread: mic_record.                                         *)
(***************************************************************************)
\* subprocess.Popen launches rec.
MicPopen ==
    /\ mic_pc = "popen"
    /\ mic_pc' = "read"
    /\ subproc' = "running"
    /\ UNCHANGED <<queues, audio_buffer_size, main_vars, mic_buffer, nreads,
                   agg_vars, logs, cancelled>>

\* subprocess.Popen raises (rec cannot be launched): the exception is not
\* caught in the thread, which ends.
MicPopenFail ==
    /\ mic_pc = "popen"
    /\ mic_pc' = "dead"
    /\ subproc' = "failed"
    /\ UNCHANGED <<queues, audio_buffer_size, main_vars, mic_buffer, nreads,
                   agg_vars, logs, cancelled>>

MicRead(len) ==
    /\ mic_pc = "read"
    /\ nreads < MaxChunks
    /\ nreads' = nreads + 1
    /\ mic_buffer' = [id |-> nreads + 1, len |-> len]
    /\ mic_pc' = "put"
    /\ UNCHANGED <<queues, audio_buffer_size, main_vars, agg_vars, logs, cancelled>>

\* subproc.stdout.read(512) returns 512 bytes.
MicReadFull ==
    /\ subproc = "running"
    /\ MicRead(ChunkBytes)
    /\ UNCHANGED subproc

\* The pipe is unbuffered (bufsize=0): read(512) returns what one read of
\* the pipe delivers, which can be fewer than 512 bytes.
MicReadShort ==
    /\ subproc = "running"
    /\ \E len \in ShortReads : MicRead(len)
    /\ UNCHANGED subproc

\* End of stream: read(512) returns b'' (and does so on every later call).
MicReadEOF ==
    /\ subproc \in {"running", "eof"}
    /\ MicRead(0)
    /\ subproc' = "eof"

\* read raises: the exception is not KeyboardInterrupt, the thread ends.
MicReadError ==
    /\ mic_pc = "read"
    /\ subproc = "running"
    /\ nreads < MaxChunks
    /\ mic_pc' = "dead"
    /\ UNCHANGED <<queues, audio_buffer_size, main_vars, mic_buffer, subproc, nreads,
                   agg_vars, logs, cancelled>>

\* self.audio_q.put(mic_buffer)
MicPut ==
    /\ mic_pc = "put"
    /\ can_put(audio_q)
    /\ audio_q' = q_put(audio_q, mic_buffer)
    /\ put_log' = Append(put_log, mic_buffer)
    /\ mic_buffer' = None
    /\ mic_pc' = "read"
    /\ UNCHANGED <<preprocess_q, model_q, predictions, audio_buffer_size, main_vars,
                   subproc, nreads, agg_vars, frames_log, feat_log, infer_log, cancelled>>

(***************************************************************************)
(* The aggregation thread: audio_collection.                               *)
(***************************************************************************)
\* mic_buffer = self.audio_q.get(); frombuffer; append.
AggGet ==
    /\ agg_pc = "get"
    /\ audio_q # <<>>
    /\ frombuffer_ok(q_get(audio_q))
    /\ audio_q' = q_rest(audio_q)
    /\ audio_buffer' = np_append(audio_buffer, frombuffer(q_get(audio_q)))
    /\ agg_pc' = IF collected(audio_buffer') THEN "put" ELSE "get"
    /\ UNCHANGED <<preprocess_q, model_q, predictions, audio_buffer_size, main_vars,
                   mic_vars, logs, cancelled>>

\* np.frombuffer raises ValueError on a chunk that splits a sample; only
\* KeyboardInterrupt is caught, so the thread ends and its locals are gone.
AggGetRaise ==
    /\ agg_pc = "get"
    /\ audio_q # <<>>
    /\ ~frombuffer_ok(q_get(audio_q))
    /\ audio_q' = q_rest(audio_q)
    /\ audio_buffer' = <<>>
    /\ agg_pc' = "dead"
    /\ UNCHANGED <<preprocess_q, model_q, predictions, audio_buffer_size, main_vars,
                   mic_vars, logs, cancelled>>

\* The frame is put and the buffer is not reinitialised.
AggPut_NoReset ==
    /\ agg_pc = "put"
    /\ can_put(preprocess_q)
    /\ preprocess_q' = q_put(preprocess_q, audio_buffer)
    /\ frames_log' = Append(frames_log, audio_buffer)
    /\ agg_pc' = "get"
    /\ UNCHANGED <<audio_q, model_q, predictions, audio_buffer_size, main_vars,
                   mic_vars, audio_buffer, put_log, feat_log, infer_log, cancelled>>

\* self.preprocess_q.put(audio_buffer), then the buffer is reinitialised.
AggPut ==
    /\ agg_pc = "put"
    /\ can_put(preprocess_q)
    /\ preprocess_q' = q_put(preprocess_q, audio_buffer)
    /\ frames_log' = Append(frames_log, audio_buffer)
    /\ audio_buffer' = <<>>
    /\ agg_pc' = "get"
    /\ UNCHANGED <<audio_q, model_q, predictions, audio_buffer_size, main_vars,
                   mic_vars, put_log, feat_log, infer_log, cancelled>>

(***************************************************************************)
(* The main thread: main().                                                *)
(***************************************************************************)
\* stream_infer.start_stream(): Thread(target=self.mic_record).start()
MainStartStream ==
    /\ main_pc = "start_stream"
    /\ mic_pc' = "popen"
    /\ main_pc' = "start_collection"
    /\ UNCHANGED <<queues, audio_buffer_size, np_array, norm_log_spec, mon_i, mon_line,
                   report, mic_buffer, subproc, nreads, agg_vars, logs, cancelled>>

\* stream_infer.start_collection(audio_buffer_size)
MainStartCollection ==
    /\ main_pc = "start_collection"
    /\ agg_pc' = "get"
    /\ main_pc' = "load"
    /\ UNCHANGED <<queues, audio_buffer_size, np_array, norm_log_spec, mon_i, mon_line,
                   report, mic_vars, audio_buffer, logs, cancelled>>

\* model, preproc = speech.load(model_path); then preprocess(preproc) is
\* called in the main thread.
MainLoad ==
    /\ main_pc = "load"
    /\ main_pc' = "preprocess_get"
    /\ UNCHANGED <<queues, audio_buffer_size, np_array, norm_log_spec, mon_i, mon_line,
                   report, mic_vars, agg_vars, logs, cancelled>>

\* The frame is read and left on the queue.
PreprocessGet_NoPop ==
    /\ main_pc = "preprocess_get"
    /\ preprocess_q # <<>>
    /\ np_array' = q_get(preprocess_q)
    /\ main_pc' = "preprocess_put"
    /\ UNCHANGED <<queues, audio_buffer_size, norm_log_spec,
                   mon_i, mon_line, report, mic_vars, agg_vars, logs, cancelled>>

\* np_array = self.preprocess_q.get()
PreprocessGet ==
    /\ main_pc = "preprocess_get"
    /\ preprocess_q # <<>>
    /\ np_array' = q_get(preprocess_q)
    /\ preprocess_q' = q_rest(preprocess_q)
    /\ main_pc' = "preprocess_put"
    /\ UNCHANGED <<audio_q, model_q, predictions, audio_buffer_size, norm_log_spec,
                   mon_i, mon_line, report, mic_vars, agg_vars, logs, cancelled>>

\* log_specgram, normalisation, self.model_q.put(norm_log_spec)
PreprocessPut ==
    /\ main_pc = "preprocess_put"
    /\ preprocess_ok(np_array)
    /\ can_put(model_q)
    /\ model_q' = q_put(model_q, log_specgram(np_array))
    /\ feat_log' = Append(feat_log, log_specgram(np_array))
    /\ np_array' = <<>>
    /\ main_pc' = "preprocess_get"
    /\ UNCHANGED <<audio_q, preprocess_q, predictions, audio_buffer_size, norm_log_spec,
                   mon_i, mon_line, report, mic_vars, agg_vars, put_log, frames_log,
                   infer_log, cancelled>>

\* The frame that could not be processed is put back on preprocess_q.
PreprocessRaise_Requeue ==
    /\ main_pc = "preprocess_put"
    /\ ~preprocess_ok(np_array)
    /\ preprocess_q' = q_put(preprocess_q, np_array)
    /\ np_array' = <<>>
    /\ main_pc' = "crashed"
    /\ UNCHANGED <<audio_q, model_q, predictions, audio_buffer_size, norm_log_spec,
                   mon_i, mon_line, report, mic_vars, agg_vars, logs, cancelled>>

\* log_specgram or the normalisation raises ValueError: not caught by
\* preprocess() nor by main(), the main thread ends.
PreprocessRaise ==
    /\ main_pc = "preprocess_put"
    /\ ~preprocess_ok(np_array)
    /\ np_array' = <<>>
    /\ main_pc' = "crashed"
    /\ UNCHANGED <<queues, audio_buffer_size, norm_log_spec, mon_i, mon_line, report,
                   mic_vars, agg_vars, logs, cancelled>>

\* The next feature frame fetched while the previous one is still being
\* processed.
InferGet_Eager ==
    /\ main_pc \in {"infer_get", "infer_model"}
    /\ model_q # <<>>
    /\ norm_log_spec' = q_get(model_q)
    /\ model_q' = q_rest(model_q)
    /\ main_pc' = "infer_model"
    /\ UNCHANGED <<audio_q, preprocess_q, predictions, audio_buffer_size, np_array,
                   mon_i, mon_line, report, mic_vars, agg_vars, logs, cancelled>>

\* norm_log_spec = self.model_q.get()
InferGet ==
    /\ main_pc = "infer_get"
    /\ model_q # <<>>
    /\ norm_log_spec' = q_get(model_q)
    /\ model_q' = q_rest(model_q)
    /\ main_pc' = "infer_model"
    /\ UNCHANGED <<audio_q, preprocess_q, predictions, audio_buffer_size, np_array,
                   mon_i, mon_line, report, mic_vars, agg_vars, logs, cancelled>>

\* model.infer, preproc.decode, self.predictions.extend(preds)
InferExtend ==
    /\ main_pc = "infer_model"
    /\ infer_log' = Append(infer_log, norm_log_spec)
    /\ predictions' = extend(predictions, infer_preds(norm_log_spec))
    /\ norm_log_spec' = None
    /\ main_pc' = "infer_get"
    /\ UNCHANGED <<audio_q, preprocess_q, model_q, audio_buffer_size, np_array,
                   mon_i, mon_line, report, mic_vars, agg_vars, put_log, frames_log,
                   feat_log, cancelled>>

\* Each prediction appended as soon as it is decoded, before the failure.
InferRaise_Partial ==
    /\ main_pc = "infer_model"
    /\ infer_log' = Append(infer_log, norm_log_spec)
    /\ predictions' = extend(predictions, infer_preds(norm_log_spec))
    /\ norm_log_spec' = None
    /\ main_pc' = "infer_raised"
    /\ UNCHANGED <<audio_q, preprocess_q, model_q, audio_buffer_size, np_array,
                   mon_i, mon_line, report, mic_vars, agg_vars, put_log, frames_log,
                   feat_log, cancelled>>

\* model.infer or preproc.decode raises: the list of decoded predictions is
\* never built, extend is not reached; the exception is not caught by
\* infer() nor by main(), the main thread ends.
InferRaise ==
    /\ main_pc = "infer_model"
    /\ infer_log' = Append(infer_log, norm_log_spec)
    /\ norm_log_spec' = None
    /\ main_pc' = "infer_raised"
    /\ UNCHANGED <<queues, audio_buffer_size, np_array, mon_i, mon_line, report,
                   mic_vars, agg_vars, put_log, frames_log, feat_log, cancelled>>

\* for _ in range(20): the model follows the loop for at most MaxRounds
\* iterations.
rounds == IF MaxRounds < MonitorRounds THEN MaxRounds ELSE MonitorRounds

\* check_queue_size(): the value each print statement prints.
printed(line) ==
    CASE line = 1 -> Len(preprocess_q)
      [] line = 2 -> Len(preprocess_q)
      [] line = 3 -> Len(model_q)
      [] line = 4 -> Len(predictions)

\* A monitoring call that empties the prediction list once it has reported it.
MonitorPrint_Clear ==
    /\ main_pc = "monitor"
    /\ mon_i < rounds
    /\ report' = CASE mon_line = 1 -> [report EXCEPT !.audio_q = printed(1)]
                   [] mon_line = 2 -> [report EXCEPT !.preprocess_q = printed(2)]
                   [] mon_line = 3 -> [report EXCEPT !.model_q = printed(3)]
                   [] mon_line = 4 -> [report EXCEPT !.predictions = printed(4)]
    /\ predictions' = IF mon_line = 4 THEN <<>> ELSE predictions
    /\ mon_line' = IF mon_line = 4 THEN 1 ELSE mon_line + 1
    /\ mon_i' = IF mon_line = 4 THEN mon_i + 1 ELSE mon_i
    /\ UNCHANGED <<audio_q, preprocess_q, model_q, audio_buffer_size, main_pc, np_array,
                   norm_log_spec, mic_vars, agg_vars, logs, cancelled>>

\* One print statement of check_queue_size(), called from the loop of main().
MonitorPrint ==
    /\ main_pc = "monitor"
    /\ mon_i < rounds
    /\ report' = CASE mon_line = 1 -> [report EXCEPT !.audio_q = printed(1)]
                   [] mon_line = 2 -> [report EXCEPT !.preprocess_q = printed(2)]
                   [] mon_line = 3 -> [report EXCEPT !.model_q = printed(3)]
                   [] mon_line = 4 -> [report EXCEPT !.predictions = printed(4)]
    /\ mon_line' = IF mon_line = 4 THEN 1 ELSE mon_line + 1
    /\ mon_i' = IF mon_line = 4 THEN mon_i + 1 ELSE mon_i
    /\ UNCHANGED <<queues, audio_buffer_size, main_pc, np_array, norm_log_spec,
                   mic_vars, agg_vars, logs, cancelled>>

\* for _ in range(20) is exhausted: main() returns.
MonitorDone ==
    /\ main_pc = "monitor"
    /\ mon_i = rounds
    /\ main_pc' = "done"
    /\ UNCHANGED <<queues, audio_buffer_size, np_array, norm_log_spec, mon_i, mon_line,
                   report, mic_vars, agg_vars, logs, cancelled>>

(***************************************************************************)
(* SIGINT.  Python raises KeyboardInterrupt in the main thread only; the   *)
(* threads started with Thread() never see it.                             *)
(***************************************************************************)
\* main thread inside preprocess(): except KeyboardInterrupt, return, and
\* main() goes on to call infer().
InterruptPreprocess ==
    /\ main_pc \in {"preprocess_get", "preprocess_put"}
    /\ cancelled' = TRUE
    /\ np_array' = <<>>
    /\ main_pc' = "infer_get"
    /\ UNCHANGED <<queues, audio_buffer_size, norm_log_spec, mon_i, mon_line, report,
                   mic_vars, agg_vars, logs>>

\* main thread inside infer(): except KeyboardInterrupt, return, and main()
\* goes on to the monitoring loop.
InterruptInfer ==
    /\ main_pc \in {"infer_get", "infer_model"}
    /\ cancelled' = TRUE
    /\ norm_log_spec' = None
    /\ main_pc' = "monitor"
    /\ UNCHANGED <<queues, audio_buffer_size, np_array, mon_i, mon_line, report,
                   mic_vars, agg_vars, logs>>

\* main thread elsewhere in main(): nothing catches it, main() ends.
InterruptMain ==
    /\ main_pc \in {"start_stream", "start_collection", "load", "monitor"}
    /\ cancelled' = TRUE
    /\ main_pc' = "crashed"
    /\ mon_i' = 0
    /\ mon_line' = 1
    /\ UNCHANGED <<queues, audio_buffer_size, np_array, norm_log_spec,
                   report, mic_vars, agg_vars, logs>>

Next ==
    \/ MicPopen \/ MicPopenFail
    \/ MicReadFull \/ MicReadShort \/ MicReadEOF \/ MicReadError
    \/ MicPut
    \/ AggGet \/ AggGetRaise \/ AggPut
    \/ MainStartStream \/ MainStartCollection \/ MainLoad
    \/ PreprocessGet \/ PreprocessPut \/ PreprocessRaise
    \/ InferGet \/ InferExtend \/ InferRaise
    \/ MonitorPrint \/ MonitorDone
    \/ InterruptPreprocess \/ InterruptInfer \/ InterruptMain

Spec == Init /\ [][Next]_vars

(***************************************************************************)
(* The pipeline in normal operation: the backend delivers full chunks, no  *)
(* SIGINT is raised, frames span at least one analysis window, and every   *)
(* thread that can take a step eventually takes it.  Without a SIGINT the  *)
(* main thread never leaves preprocess(), so the steps of infer() and of   *)
(* the monitoring loop are not among the steps of this specification.      *)
(***************************************************************************)
InitLive == Init /\ audio_buffer_size >= 2

NextLive ==
    \/ MicPopen \/ MicReadFull \/ MicPut
    \/ AggGet \/ AggPut
    \/ MainStartStream \/ MainStartCollection \/ MainLoad
    \/ PreprocessGet \/ PreprocessPut

LiveSpec ==
    /\ InitLive
    /\ [][NextLive]_vars
    /\ WF_vars(MicPopen) /\ WF_vars(MicReadFull) /\ WF_vars(MicPut)
    /\ WF_vars(AggGet) /\ WF_vars(AggPut)
    /\ WF_vars(MainStartStream) /\ WF_vars(MainStartCollection) /\ WF_vars(MainLoad)
    /\ WF_vars(PreprocessGet) /\ WF_vars(PreprocessPut)

(***************************************************************************)
(* Fan-out of the aggregation stage: a caller that calls start_collection  *)
(* more than once.  Every call starts one more thread of audio_collection  *)
(* on the same audio_q; each thread has its own audio_buffer.  In this     *)
(* specification agg_pc and audio_buffer hold one value per thread.        *)
(***************************************************************************)
MaxWorkers == 2
Workers == 1..MaxWorkers

FanInit ==
    /\ audio_q = <<>>
    /\ preprocess_q = <<>>
    /\ model_q = <<>>
    /\ predictions = <<>>
    /\ audio_buffer_size \in 1..MaxBufferSize
    /\ main_pc = "start_stream"
    /\ np_array = <<>>
    /\ norm_log_spec = None
    /\ mon_i = 0
    /\ mon_line = 1
    /\ report = [audio_q |-> -1, preprocess_q |-> -1, model_q |-> -1, predictions |-> -1]
    /\ mic_pc = "idle"
    /\ mic_buffer = None
    /\ subproc = "none"
    /\ nreads = 0
    /\ agg_pc = [w \in Workers |-> "idle"]
    /\ audio_buffer = [w \in Workers |-> <<>>]
    /\ put_log = <<>>
    /\ frames_log = <<>>
    /\ feat_log = <<>>
    /\ infer_log = <<>>
    /\ cancelled = FALSE

\* One more call of start_collection(audio_buffer_size): the next thread of
\* audio_collection is started.
FanStartCollection(w) ==
    /\ main_pc = "start_collection"
    /\ agg_pc[w] = "idle"
    /\ \A v \in Workers : v < w => agg_pc[v] # "idle"
    /\ agg_pc' = [agg_pc EXCEPT ![w] = "get"]
    /\ UNCHANGED <<queues, audio_buffer_size, main_vars, mic_vars, audio_buffer,
                   logs, cancelled>>

\* Thread w reads the oldest chunk without taking it off the queue.
FanAggGet_Peek(w) ==
    /\ agg_pc[w] = "get"
    /\ audio_q # <<>>
    /\ frombuffer_ok(q_get(audio_q))
    /\ audio_buffer' = [audio_buffer EXCEPT ![w] = np_append(@, frombuffer(q_get(audio_q)))]
    /\ agg_pc' = [agg_pc EXCEPT ![w] = IF collected(audio_buffer'[w]) THEN "put" ELSE "get"]
    /\ UNCHANGED <<queues, audio_buffer_size, main_vars, mic_vars, logs, cancelled>>

\* Thread w takes the newest chunk of the queue instead of the oldest.
FanAggGet_Last(w) ==
    /\ agg_pc[w] = "get"
    /\ audio_q # <<>>
    /\ frombuffer_ok(audio_q[Len(audio_q)])
    /\ audio_q' = SubSeq(audio_q, 1, Len(audio_q) - 1)
    /\ audio_buffer' = [audio_buffer EXCEPT ![w] = np_append(@, frombuffer(audio_q[Len(audio_q)]))]
    /\ agg_pc' = [agg_pc EXCEPT ![w] = IF collected(audio_buffer'[w]) THEN "put" ELSE "get"]
    /\ UNCHANGED <<preprocess_q, model_q, predictions, audio_buffer_size, main_vars,
                   mic_vars, logs, cancelled>>

\* Thread w: mic_buffer = self.audio_q.get(); frombuffer; append.  Queue.get
\* takes the item off the queue under the queue's lock.
FanAggGet(w) ==
    /\ agg_pc[w] = "get"
    /\ audio_q # <<>>
    /\ frombuffer_ok(q_get(audio_q))
    /\ audio_q' = q_rest(audio_q)
    /\ audio_buffer' = [audio_buffer EXCEPT ![w] = np_append(@, frombuffer(q_get(audio_q)))]
    /\ agg_pc' = [agg_pc EXCEPT ![w] = IF collected(audio_buffer'[w]) THEN "put" ELSE "get"]
    /\ UNCHANGED <<preprocess_q, model_q, predictions, audio_buffer_size, main_vars,
                   mic_vars, logs, cancelled>>

\* Thread w: np.frombuffer raises ValueError, the thread ends and its buffer
\* is gone.
FanAggGetRaise(w) ==
    /\ agg_pc[w] = "get"
    /\ audio_q # <<>>
    /\ ~frombuffer_ok(q_get(audio_q))
    /\ audio_q' = q_rest(audio_q)
    /\ audio_buffer' = [audio_buffer EXCEPT ![w] = <<>>]
    /\ agg_pc' = [agg_pc EXCEPT ![w] = "dead"]
    /\ UNCHANGED <<preprocess_q, model_q, predictions, audio_buffer_size, main_vars,
                   mic_vars, logs, cancelled>>

\* Thread w: self.preprocess_q.put(audio_buffer), then its buffer is
\* reinitialised.
FanAggPut(w) ==
    /\ agg_pc[w] = "put"
    /\ can_put(preprocess_q)
    /\ preprocess_q' = q_put(preprocess_q, audio_buffer[w])
    /\ frames_log' = Append(frames_log, audio_buffer[w])
    /\ audio_buffer' = [audio_buffer EXCEPT ![w] = <<>>]
    /\ agg_pc' = [agg_pc EXCEPT ![w] = "get"]
    /\ UNCHANGED <<audio_q, model_q, predictions, audio_buffer_size, main_vars,
                   mic_vars, put_log, feat_log, infer_log, cancelled>>

FanNext ==
    \/ MainStartStream
    \/ MicPopen \/ MicReadFull \/ MicReadShort \/ MicPut
    \/ \E w \in Workers : FanStartCollection(w)
    \/ \E w \in Workers : FanAggGet(w)
    \/ \E w \in Workers : FanAggGetRaise(w)
    \/ \E w \in Workers : FanAggPut(w)

FanSpec == FanInit /\ [][FanNext]_vars

\* The runs the threads of audio_collection hold in their buffers, thread by
\* thread, and all the runs that are in a frame or in a buffer.
FanBuffered == Flatten(audio_buffer)
FanHeld == Flatten(frames_log) \o FanBuffered

(***************************************************************************)
(* The values computed by one pass of the loop of preprocess(): log_specgram*)
(* and the normalisation, applied to one frame.  Here a run of samples also *)
(* carries its amplitude (0 for digital silence), powers are counted in     *)
(* units of eps, logarithms in whole decades, and a floating-point value is *)
(* [kind, v] with kind "finite", "-inf", "+inf" or "nan".  The values of a  *)
(* spectrogram are kept as the set of the values found in its bins.         *)
(***************************************************************************)
EpsDecades == 10
Amps == {0, 1000}
Means == {-12, -10, -4, 0}
Stds == {1, 2, 3}

finite(v) == [kind |-> "finite", v |-> v]
NegInf == [kind |-> "-inf", v |-> 0]
PosInf == [kind |-> "+inf", v |-> 0]
NaN == [kind |-> "nan", v |-> 0]

RECURSIVE ilog10(_)
ilog10(n) == IF n < 10 THEN 0 ELSE 1 + ilog10(n \div 10)

\* np.log of a power given in units of eps: -inf at 0.
np_log(p) == IF p = 0 THEN NegInf ELSE finite(ilog10(p) - EpsDecades)

\* scipy.signal.spectrogram(..., detrend=False): every bin of every segment
\* of an all-zero frame is 0; a frame with signal has bins at the signal's
\* power and can have bins at 0.
spectrogram(frame) == {0} \cup {frame[i].amp * frame[i].amp : i \in 1..Len(frame)}

\* The logarithm taken without the floor.
log_spec_nofloor(frame) == {np_log(p) : p \in spectrogram(frame)}

\* np.log(spec.T.astype(np.float32) + eps)
log_spec(frame) == {np_log(p + 1) : p \in spectrogram(frame)}

\* x - mean and x / std as numpy computes them: infinities and nan are
\* carried through, a division by 0 gives nan for 0/0 and an infinity
\* of the sign of x otherwise.
subtract(x, mean) == IF x.kind = "finite" THEN finite(x.v - mean) ELSE x
divide(x, std) ==
    IF std # 0
    THEN IF x.kind = "finite" THEN finite(x.v \div std) ELSE x
    ELSE IF x.kind = "nan" \/ (x.kind = "finite" /\ x.v = 0) THEN NaN
         ELSE IF x.kind = "-inf" \/ (x.kind = "finite" /\ x.v < 0) THEN NegInf
         ELSE PosInf

\* norm_log_spec = (log_spec - preproc.mean) / preproc.std
normalised(frame, mean, std) ==
    [src |-> frame, steps |-> time_steps(SumN(frame)), bins |-> freq_bins(SumN(frame)),
     vals |-> {divide(subtract(x, mean), std) : x \in log_spec(frame)}]

\* The frames of k runs, each run a full or a half chunk, silent or not.
NumRuns == [n : {ChunkBytes \div SampleBytes, (ChunkBytes \div 2) \div SampleBytes},
            amp : Amps]
NumFrames(k) ==
    {[i \in 1..k |-> [id |-> i, n |-> f[i].n, amp |-> f[i].amp]] : f \in [1..k -> NumRuns]}

\* preprocess() holds a frame it has just dequeued.
NumInit ==
    /\ audio_q = <<>>
    /\ preprocess_q = <<>>
    /\ model_q = <<>>
    /\ predictions = <<>>
    /\ audio_buffer_size \in 1..MaxBufferSize
    /\ main_pc = "preprocess_put"
    /\ np_array \in NumFrames(audio_buffer_size)
    /\ norm_log_spec = None
    /\ mon_i = 0
    /\ mon_line = 1
    /\ report = [audio_q |-> -1, preprocess_q |-> -1, model_q |-> -1, predictions |-> -1]
    /\ mic_pc = "read"
    /\ mic_buffer = None
    /\ subproc = "running"
    /\ nreads = audio_buffer_size
    /\ agg_pc = "get"
    /\ audio_buffer = <<>>
    /\ put_log = <<>>
    /\ frames_log = <<np_array>>
    /\ feat_log = <<>>
    /\ infer_log = <<>>
    /\ cancelled = FALSE

\* log_specgram, normalisation with the statistics of the preprocessor that
\* was loaded, self.model_q.put(norm_log_spec).  The statistics are those of
\* a preprocessor a model was trained with: std is positive in every bin.
NumPreprocessPut ==
    /\ main_pc = "preprocess_put"
    /\ preprocess_ok(np_array)
    /\ can_put(model_q)
    /\ \E mean \in Means, std \in Stds :
         /\ model_q' = q_put(model_q, normalised(np_array, mean, std))
         /\ feat_log' = Append(feat_log, normalised(np_array, mean, std))
    /\ np_array' = <<>>
    /\ main_pc' = "preprocess_get"
    /\ UNCHANGED <<audio_q, preprocess_q, predictions, audio_buffer_size, norm_log_spec,
                   mon_i, mon_line, report, mic_vars, agg_vars, put_log, frames_log,
                   infer_log, cancelled>>

NumNext == NumPreprocessPut \/ PreprocessRaise

NumSpec == NumInit /\ [][NumNext]_vars

\* Every sample of the frame is zero.
AllZero(frame) == \A i \in 1..Len(frame) : frame[i].amp = 0

(***************************************************************************)
(* Predicates on the state of the stages.                                  *)
(***************************************************************************)
\* The thread of mic_record / audio_collection is inside its while loop.
MicRunning == mic_pc \in {"popen", "read", "put"}
AggRunning == agg_pc \in {"get", "put"}
\* The loop of preprocess() / infer() is being executed.
ExtractorRunning == main_pc \in {"preprocess_get", "preprocess_put"}
ConsumerRunning == main_pc \in {"infer_get", "infer_model"}

\* The chunks audio_collection has taken off audio_q, oldest first.
Dequeued == SubSeq(put_log, 1, Len(put_log) - Len(audio_q))

\* How many feature frames of s (model_q items, model.infer arguments) were
\* computed from frame f, and how many predictions of s derive from it.
CountSrc(s, f) == Cardinality({i \in 1..Len(s) : s[i].src = f})
CountOf(s, f) == Cardinality({i \in 1..Len(s) : s[i].of = f})

\* Frames held by preprocess() and by infer() between their get and the
\* end of the iteration.
HeldByExtractor == IF np_array # <<>> THEN 1 ELSE 0
HeldByConsumer == IF norm_log_spec # None THEN 1 ELSE 0

\* The chunks the pipeline holds: those on audio_q, those in the partial
\* buffer, and audio_buffer_size for every frame on a queue, held by a
\* stage, or turned into a prediction.
ChunksHeld ==
    Len(audio_q) + Len(audio_buffer)
    + audio_buffer_size * (Len(preprocess_q) + HeldByExtractor + Len(model_q)
                           + HeldByConsumer + Len(predictions))

\* No stage has raised and no SIGINT has been delivered.
NoFailure ==
    /\ ~cancelled
    /\ mic_pc # "dead"
    /\ agg_pc # "dead"
    /\ main_pc \notin {"crashed", "infer_raised"}

\* No stage has given up an item it had dequeued: every frame put was passed
\* on, is queued or is held, and so was every feature frame.
NothingDropped ==
    /\ agg_pc # "dead"
    /\ main_pc # "infer_raised"
    /\ Len(frames_log) = Len(feat_log) + Len(preprocess_q) + HeldByExtractor
    /\ Len(feat_log) = Len(infer_log) + Len(model_q) + HeldByConsumer

(***************************************************************************)
(* Claims.                                                                 *)
(***************************************************************************)
\* C1: with one aggregator, once all N chunks put on audio_q have been taken
\* and N is a multiple of audio_buffer_size, the frames put on preprocess_q,
\* concatenated in the order they were put, are the chunks c1..cN: the same
\* chunks, the same bytes, the same order.
C1_FramesReproduceChunks ==
    (/\ agg_pc = "get"
     /\ audio_q = <<>>
     /\ Len(put_log) % audio_buffer_size = 0)
    => /\ Len(Flatten(frames_log)) = Len(put_log)
       /\ \A i \in 1..Len(put_log) :
            /\ Flatten(frames_log)[i].id = put_log[i].id
            /\ Flatten(frames_log)[i].n * SampleBytes = put_log[i].len

C1_Witness ==
    /\ agg_pc = "get"
    /\ audio_q = <<>>
    /\ audio_buffer_size = 2
    /\ Len(put_log) = 4
    /\ Len(frames_log) = 2

\* C2: predictions are appended in the order in which the frames they derive
\* from were put on preprocess_q: of two predictions, the earlier one derives
\* from the frame that was enqueued earlier.
C2_PredictionsInFrameOrder ==
    \A i, j \in 1..Len(predictions) :
        i < j => \E a, b \in 1..Len(frames_log) :
                    /\ a < b
                    /\ frames_log[a] = predictions[i].of
                    /\ frames_log[b] = predictions[j].of

C2_Witness ==
    /\ Len(predictions) >= 2
    /\ predictions[1].of = frames_log[1]
    /\ predictions[2].of = frames_log[2]

\* C3: once the caller has started the four stages and is monitoring, the
\* capture, aggregation, feature extraction and inference workers are all
\* running.
C3_AllStagesRunWhileMonitoring ==
    main_pc = "monitor" =>
        MicRunning /\ AggRunning /\ ExtractorRunning /\ ConsumerRunning

\* C4: every frame put on preprocess_q is eventually turned into a feature
\* frame on model_q, and every feature frame put on model_q eventually leads
\* to a prediction being appended.
C4_FramesBecomePredictions ==
    \A i \in 1..MaxChunks :
        /\ (Len(frames_log) >= i) ~> (Len(feat_log) >= i)
        /\ (Len(feat_log) >= i) ~> (Len(predictions) >= i)

\* C5: each print statement of the monitoring call reports the current depth
\* of the queue it names, and the last one the length of predictions.
C5_MonitorReportsOwnDepths ==
    [][MonitorPrint =>
        /\ mon_line = 1 => report'.audio_q = Len(audio_q)
        /\ mon_line = 2 => report'.preprocess_q = Len(preprocess_q)
        /\ mon_line = 3 => report'.model_q = Len(model_q)
        /\ mon_line = 4 => report'.predictions = Len(predictions)]_vars

\* C6: after the cancellation signal, when no thread can take a further
\* step, every worker that was started has left its loop, and the capture
\* subprocess that was launched has been terminated.
C6_CancelStopsEveryWorker ==
    (cancelled /\ ~ENABLED Next) =>
        /\ ~MicRunning
        /\ ~AggRunning
        /\ ~ExtractorRunning
        /\ ~ConsumerRunning
        /\ subproc \in {"none", "failed", "terminated"}

\* C7: every chunk put on audio_q is exactly ChunkBytes long.
C7_ChunksHaveConfiguredLength ==
    \A i \in 1..Len(put_log) : put_log[i].len = ChunkBytes

\* C8: every frame put on preprocess_q holds exactly audio_buffer_size times
\* the samples of a full chunk, and no run of samples is in two frames.
C8_FramesHaveFixedLength ==
    /\ \A i \in 1..Len(frames_log) :
         SumN(frames_log[i]) = audio_buffer_size * (ChunkBytes \div SampleBytes)
    /\ \A i, j \in 1..Len(Flatten(frames_log)) :
         i # j => Flatten(frames_log)[i].id # Flatten(frames_log)[j].id

C10_FloorFramesModBuffered ==
    (agg_pc = "get" /\ audio_q = <<>>) =>
        /\ Len(frames_log) = Len(put_log) \div audio_buffer_size
        /\ Len(audio_buffer) = Len(put_log) % audio_buffer_size
        /\ \A i \in 1..Len(audio_buffer) :
             audio_buffer[i].id =
                put_log[Len(put_log) - Len(audio_buffer) + i].id

C10_Witness ==
    /\ agg_pc = "get"
    /\ audio_q = <<>>
    /\ audio_buffer_size = 2
    /\ Len(put_log) = 5
    /\ Len(frames_log) = 2
    /\ Len(audio_buffer) = 1

\* C11: every frame yields at most one feature frame, one model invocation
\* and one prediction, and a frame whose prediction has been appended has
\* had exactly one of each; the predictions are as many as the model
\* invocations that returned.
C11_OneFeatureOneCallOnePrediction ==
    /\ \A n \in 1..Len(frames_log) :
         /\ CountSrc(feat_log, frames_log[n]) <= 1
         /\ CountSrc(infer_log, frames_log[n]) <= 1
         /\ CountOf(predictions, frames_log[n]) <= 1
    /\ \A i \in 1..Len(predictions) :
         /\ CountSrc(feat_log, predictions[i].of) = 1
         /\ CountSrc(infer_log, predictions[i].of) = 1
    /\ Len(predictions) = Len(infer_log) - (IF main_pc = "infer_raised" THEN 1 ELSE 0)

C11_Witness ==
    /\ Len(frames_log) = 2
    /\ Len(feat_log) = 2
    /\ Len(infer_log) = 2
    /\ Len(predictions) = 2
    /\ preprocess_q = <<>>
    /\ model_q = <<>>

\* C12: when the model call or the decoder raises, only the inference loop
\* stops: the step stops neither thread and leaves predictions as it was,
\* and afterwards the extractor is still running and the monitoring call
\* can still be made.
C12_InferFailureStopsOnlyConsumer ==
    /\ [][main_pc' = "infer_raised" =>
            /\ mic_pc' = mic_pc
            /\ agg_pc' = agg_pc
            /\ predictions' = predictions]_vars
    /\ [](main_pc = "infer_raised" => ExtractorRunning /\ ENABLED MonitorPrint)

\* C13: once the capture backend has failed to launch, the caller starts no
\* further stage and does not go on to run the extractor.
C13_LaunchFailureAbortsStartup ==
    [][subproc = "failed" => ~(MainStartCollection \/ MainLoad)]_vars

\* C14: after a failed read (an error or end of stream) the capture worker
\* puts nothing more on audio_q, and the failing read stops no other stage.
C14_FailedReadEndsCapture ==
    /\ [][(subproc = "eof" \/ mic_pc = "dead") => put_log' = put_log]_vars
    /\ [][(MicReadError \/ MicReadEOF) => agg_pc' = agg_pc /\ main_pc' = main_pc]_vars

\* C15: after a cancellation the monitoring call is never blocked, is not
\* made to fail, and reports the depth of each queue and the length of
\* predictions as they are.
C15_MonitoringSurvivesCancel ==
    /\ []((cancelled /\ main_pc = "monitor" /\ mon_i < rounds) => ENABLED MonitorPrint)
    /\ [][(cancelled /\ main_pc = "monitor") => main_pc' \in {"monitor", "done"}]_vars
    /\ [][(cancelled /\ MonitorPrint) =>
            /\ mon_line = 1 => report'.audio_q = Len(audio_q')
            /\ mon_line = 2 => report'.preprocess_q = Len(preprocess_q')
            /\ mon_line = 3 => report'.model_q = Len(model_q')
            /\ mon_line = 4 => report'.predictions = Len(predictions')]_vars

\* C17: a put never blocks: whatever the depths of the queues and whether
\* or not the stage downstream is still running, a stage that has an item
\* to enqueue can enqueue it.
C17_SendsNeverBlock ==
    /\ mic_pc = "put" => ENABLED MicPut
    /\ agg_pc = "put" => ENABLED AggPut
    /\ (main_pc = "preprocess_put" /\ preprocess_ok(np_array)) => ENABLED PreprocessPut

C17_Witness ==
    /\ agg_pc = "dead"
    /\ Len(audio_q) >= 2
    /\ mic_pc = "put"
    /\ ENABLED MicPut

\* C18: predictions is append-only: in every step the sequence before the
\* step is a prefix of the sequence after it.
C18_PredictionsAppendOnly ==
    [][/\ Len(predictions') >= Len(predictions)
       /\ SubSeq(predictions', 1, Len(predictions)) = predictions]_vars

C18_Witness ==
    /\ Len(predictions) >= 2
    /\ main_pc = "monitor"
    /\ mon_i >= 1

\* C19: the monitoring call changes no queue, not predictions and no local
\* state of any stage, and it can always take its next step, also when all
\* queues are empty.
C19_MonitoringReadOnly ==
    /\ [][MonitorPrint =>
            UNCHANGED <<queues, audio_buffer_size, np_array, norm_log_spec,
                        mic_vars, agg_vars>>]_vars
    /\ []((main_pc = "monitor" /\ mon_i < rounds) => ENABLED MonitorPrint)

C19_Witness ==
    /\ main_pc = "monitor"
    /\ mon_i >= 1
    /\ audio_q = <<>> /\ preprocess_q = <<>> /\ model_q = <<>>
    /\ report.model_q = 0
    /\ report.predictions = Len(predictions)
    /\ predictions # <<>>

\* C20: the inference loop takes a feature frame off model_q only when it
\* holds none (the model call, the decoding and the append for the previous
\* one are over), it holds one exactly while it processes it, and the model
\* is invoked on the feature frames in the order they were enqueued.
C20_OneFrameAtATime ==
    /\ [][Len(model_q') < Len(model_q) =>
            /\ norm_log_spec = None
            /\ norm_log_spec' = Head(model_q)]_vars
    /\ []((norm_log_spec # None) <=> (main_pc = "infer_model"))
    /\ [](\A i, j \in 1..Len(infer_log) :
            i < j => \E a, b \in 1..Len(feat_log) :
                        /\ a < b
                        /\ feat_log[a] = infer_log[i]
                        /\ feat_log[b] = infer_log[j])

C20_Witness ==
    /\ Len(infer_log) = 1
    /\ Len(feat_log) = 2
    /\ main_pc = "infer_model"
    /\ norm_log_spec = feat_log[2]

\* C21: when start_collection has been called several times, the threads it
\* started compete on audio_q and every chunk taken off the queue has been
\* taken by exactly one of them: no chunk is in two places (two frames, two
\* buffers, a frame and a buffer), every chunk in a frame or a buffer is one
\* that was taken off the queue, and while no thread has failed none of the
\* chunks taken is missing.
C21_EachItemDequeuedOnce ==
    /\ \A i, j \in 1..Len(FanHeld) : i # j => FanHeld[i].id # FanHeld[j].id
    /\ \A i \in 1..Len(FanHeld) :
         \E j \in 1..Len(Dequeued) :
            /\ Dequeued[j].id = FanHeld[i].id
            /\ Dequeued[j].len = FanHeld[i].n * SampleBytes
    /\ (\A w \in Workers : agg_pc[w] # "dead") => Len(FanHeld) = Len(Dequeued)

\* Two threads have each taken a chunk, and the frame of the later chunk was
\* put on preprocess_q before the frame of the earlier one.
C21_Witness ==
    /\ \A w \in Workers : agg_pc[w] \in {"get", "put"}
    /\ Len(frames_log) >= 2
    /\ frames_log[1][1].id > frames_log[2][1].id

\* C27: with several aggregation threads on audio_q, every frame put on
\* preprocess_q holds exactly audio_buffer_size chunks, the chunks of a frame
\* are in increasing arrival order, and no chunk is in two frames.
C27_FanOutFramesWellFormed ==
    /\ \A n \in 1..Len(frames_log) :
         /\ Len(frames_log[n]) = audio_buffer_size
         /\ \A i, j \in 1..Len(frames_log[n]) :
              i < j => frames_log[n][i].id < frames_log[n][j].id
    /\ \A i, j \in 1..Len(Flatten(frames_log)) :
         i # j => Flatten(frames_log)[i].id # Flatten(frames_log)[j].id

\* Two threads have interleaved their gets: both frames hold chunks that
\* were not adjacent on the queue.
C27_Witness ==
    /\ audio_buffer_size = 2
    /\ Len(frames_log) = 2
    /\ \A n \in 1..2 : frames_log[n][2].id > frames_log[n][1].id + 1

\* C22: data flows forward only.  audio_q grows only by the capture thread
\* putting its chunk and shrinks only by the aggregator taking the oldest
\* one; preprocess_q grows only by the aggregator putting its buffer and
\* shrinks only by the extractor; model_q grows only by the extractor and
\* shrinks only by the consumer; predictions is written only by the
\* consumer.  A step of one stage leaves every queue that is not its input
\* or its output, and predictions unless it is the consumer's, unchanged.
C22_DataFlowsForward ==
    [][/\ audio_q' # audio_q =>
            \/ /\ mic_pc = "put"
               /\ audio_q' = Append(audio_q, mic_buffer)
               /\ UNCHANGED <<preprocess_q, model_q, predictions, agg_vars, main_vars>>
            \/ /\ agg_pc = "get"
               /\ audio_q' = Tail(audio_q)
               /\ UNCHANGED <<preprocess_q, model_q, predictions, mic_vars, main_vars>>
       /\ preprocess_q' # preprocess_q =>
            \/ /\ agg_pc = "put"
               /\ preprocess_q' = Append(preprocess_q, audio_buffer)
               /\ UNCHANGED <<audio_q, model_q, predictions, mic_vars, main_vars>>
            \/ /\ main_pc = "preprocess_get"
               /\ preprocess_q' = Tail(preprocess_q)
               /\ np_array' = Head(preprocess_q)
               /\ UNCHANGED <<audio_q, model_q, predictions, mic_vars, agg_vars>>
       /\ model_q' # model_q =>
            \/ /\ main_pc = "preprocess_put"
               /\ model_q' = Append(model_q, log_specgram(np_array))
               /\ UNCHANGED <<audio_q, preprocess_q, predictions, mic_vars, agg_vars>>
            \/ /\ main_pc = "infer_get"
               /\ model_q' = Tail(model_q)
               /\ norm_log_spec' = Head(model_q)
               /\ UNCHANGED <<audio_q, preprocess_q, predictions, mic_vars, agg_vars>>
       /\ predictions' # predictions =>
            /\ main_pc = "infer_model"
            /\ SubSeq(predictions', 1, Len(predictions)) = predictions
            /\ UNCHANGED <<audio_q, preprocess_q, model_q, mic_vars, agg_vars>>
       /\ mic_vars' # mic_vars =>
            /\ Len(audio_q') >= Len(audio_q)
            /\ UNCHANGED <<preprocess_q, model_q, predictions>>
       /\ agg_vars' # agg_vars =>
            /\ Len(audio_q') <= Len(audio_q)
            /\ Len(preprocess_q') >= Len(preprocess_q)
            /\ UNCHANGED <<model_q, predictions>>
       /\ (ExtractorRunning /\ main_vars' # main_vars) =>
            /\ Len(preprocess_q') <= Len(preprocess_q)
            /\ Len(model_q') >= Len(model_q)
            /\ UNCHANGED <<audio_q, predictions>>
       /\ (ConsumerRunning /\ main_vars' # main_vars) =>
            /\ Len(model_q') <= Len(model_q)
            /\ UNCHANGED <<audio_q, preprocess_q>>]_vars

\* All four stages have moved items: a prediction has been appended while
\* chunks wait on audio_q and a feature frame waits on model_q.
C22_Witness ==
    /\ Len(predictions) >= 1
    /\ model_q # <<>>
    /\ audio_q # <<>>
    /\ main_pc = "infer_get"

\* C23: every feature frame put on model_q has the same number of frequency
\* bins, the length of the mean and std vectors (161), whatever frame the
\* aggregator emitted: full frames, frames shortened by short reads, and
\* frames shorter than one analysis window, from which nothing is put.
C23_FrequencyBinsFixed ==
    /\ stat_bins = 161
    /\ \A i \in 1..Len(feat_log) : feat_log[i].bins = stat_bins
    /\ \A i \in 1..Len(model_q) : model_q[i].bins = stat_bins
    /\ norm_log_spec # None => norm_log_spec.bins = stat_bins

\* A feature frame has been put, and then a frame shorter than one analysis
\* window has reached the extractor.
C23_Witness ==
    /\ Len(feat_log) >= 1
    /\ Len(frames_log) > Len(feat_log)
    /\ SumN(frames_log[Len(feat_log) + 1]) < nperseg
    /\ SumN(frames_log[Len(feat_log) + 1]) > noverlap
    /\ main_pc = "crashed"
    /\ ~cancelled
    /\ preprocess_q = <<>>

C25_BatchOfOne ==
    /\ \A i \in 1..Len(infer_log) :
         /\ Len(dummy_batch(infer_log[i])) = 2
         /\ dummy_batch(infer_log[i])[1] = <<infer_log[i]>>
         /\ dummy_batch(infer_log[i])[2] = <<fake_label>>
         /\ infer_log[i] = feat_log[i]
    /\ \A i \in 1..Len(predictions) : predictions[i].of = infer_log[i].src
    /\ Len(infer_log) <= Len(feat_log) - Len(model_q)
    /\ ConsumerRunning =>
         Len(feat_log) - Len(model_q) =
            Len(infer_log) + (IF main_pc = "infer_model" THEN 1 ELSE 0)
    /\ main_pc = "infer_model" => norm_log_spec = feat_log[Len(infer_log) + 1]

\* The model has been invoked on the first feature frame and has returned,
\* and the second is held for the next invocation.
C25_Witness ==
    /\ main_pc = "infer_model"
    /\ Len(infer_log) = 1
    /\ Len(predictions) = 1
    /\ predictions[1].of = feat_log[1].src
    /\ norm_log_spec = feat_log[2]
    /\ dummy_batch(norm_log_spec)[1] = <<feat_log[2]>>

\* C26: with one worker per stage and no failure or cancellation, the chunks
\* the capture thread has put on audio_q are as many as the chunks on
\* audio_q, plus those in the aggregator's partial buffer, plus
\* audio_buffer_size for every frame on preprocess_q, held by the extractor,
\* on model_q, held by the consumer, or with its prediction appended; no
\* stage has dropped an item.  The same balance holds after a cancellation
\* as long as no stage has dropped an item.
C26_ChunksConserved ==
    /\ NoFailure => NothingDropped
    /\ (NoFailure \/ NothingDropped) => Len(put_log) = ChunksHeld

\* Five chunks put with audio_buffer_size 2: one frame has become a feature
\* frame on model_q, one is held by the extractor, one chunk is buffered.
C26_Witness ==
    /\ NoFailure
    /\ audio_buffer_size = 2
    /\ Len(put_log) = 5
    /\ Len(audio_buffer) = 1
    /\ HeldByExtractor = 1
    /\ Len(model_q) = 1

\* C28: when the model call or a decode raises while a frame is processed,
\* predictions is what it was when the frame was dequeued: the predictions
\* of the invocations that returned before it, in order, and nothing of the
\* failed frame.  While a frame is held, before its results are appended,
\* predictions holds the results of the earlier frames only.
C28_FailedFrameLeavesNoTrace ==
    /\ main_pc = "infer_model" =>
         /\ Len(predictions) = Len(infer_log)
         /\ CountOf(predictions, norm_log_spec.src) = 0
    /\ main_pc = "infer_raised" =>
         /\ Len(predictions) = Len(infer_log) - 1
         /\ \A i \in 1..Len(predictions) : predictions[i].of = infer_log[i].src
         /\ CountOf(predictions, infer_log[Len(infer_log)].src) = 0

\* The first frame gave its prediction, the second made the model call or
\* the decoder raise.
C28_Witness ==
    /\ main_pc = "infer_raised"
    /\ Len(infer_log) = 2
    /\ Len(predictions) = 1
    /\ predictions[1].of = infer_log[1].src

====
